---- MODULE Spec2Model ----
(***************************************************************************)
(* Model of cloud_fill (src/src/cloud_fill.cpp): the neighbourhood similar *)
(* pixel interpolator that fills the cloud regions of a multi-band image   *)
(* from a clear reference image.                                           *)
(*                                                                         *)
(* Images are kept as the code keeps them: flat column-major buffers.      *)
(* Cube element (r, c, b) of an image of Rows x Cols x Bands lives at      *)
(* r + c*Rows + b*Rows*Cols; the window matrices sub_cloudy / sub_clear    *)
(* have one row per window cell (column-major inside the window) and one   *)
(* column per band.  All vectors are 0-based functions, as in the code.    *)
(*                                                                         *)
(* Arithmetic: DN values are exact rationals <<num, den>> (the doubles of  *)
(* the code without rounding).  The similarity threshold (a standard       *)
(* deviation) and the spatial distances (square roots) only occur in       *)
(* comparisons, which are modelled exactly on the squared quantities.  The *)
(* donor weights and the temporal weight are irrational in general; they   *)
(* are represented by strictly positive rationals that sum to one, picked  *)
(* by the input wsel (see Weight, W_T1).  The order sort_index gives to    *)
(* equal distances is unspecified (std::sort); it is the input tie_desc.   *)
(***************************************************************************)
EXTENDS Integers, Sequences, FiniteSets, TLC

\* ------------------------------------------------------------------------
\* Bounds of the model
\* ------------------------------------------------------------------------
Rows == 3
Cols == 4
Bands == 2
MaxNbh == 2
MaxMinPixel == 2
MaxNumClass == 1
MaxDN == 30

NCells == Rows * Cols

\* ------------------------------------------------------------------------
\* Exact rational arithmetic on <<numerator, denominator>>, denominator > 0
\* ------------------------------------------------------------------------
Abs(x) == IF x < 0 THEN -x ELSE x

RECURSIVE GCD(_, _)
GCD(a, b) == IF b = 0 THEN a ELSE GCD(b, a % b)

RNorm(n, d) ==
    LET g == GCD(Abs(n), d)
    IN  IF n = 0 THEN <<0, 1>> ELSE <<n \div g, d \div g>>

RI(n) == <<n, 1>>
RAdd(x, y) == RNorm(x[1] * y[2] + y[1] * x[2], x[2] * y[2])
RSub(x, y) == RNorm(x[1] * y[2] - y[1] * x[2], x[2] * y[2])
RMul(x, y) == RNorm(x[1] * y[1], x[2] * y[2])
RLt(x, y) == x[1] * y[2] < y[1] * x[2]

\* Length of a 0-based vector
Len0(f) == Cardinality(DOMAIN f)

\* The elements of a set of naturals in ascending order, 0-based: what
\* find() and unique() return.
Ascending(S) ==
    [k \in 0..(Cardinality(S) - 1) |->
        CHOOSE x \in S : Cardinality({y \in S : y < x}) = k]

MinOf(S) == CHOOSE x \in S : \A y \in S : x <= y
MaxOf(S) == CHOOSE x \in S : \A y \in S : x >= y

RECURSIVE RSum(_, _)
\* sum of the rationals f[0..n-1]
RSum(f, n) == IF n = 0 THEN RI(0) ELSE RAdd(RSum(f, n - 1), f[n - 1])

RECURSIVE ISum(_, _)
\* sum of the integers f[0..n-1]
ISum(f, n) == IF n = 0 THEN 0 ELSE ISum(f, n - 1) + f[n - 1]

VARIABLES
    cloud_mask,    \* the mask vector, column-major, values -1, 0 or a code >= 1
    clear,         \* the clear image, flat, integer DN
    cloudy_in,     \* the cloudy image as passed in
    cloudy,        \* the cloudy buffer the code mutates and returns
    num_class, min_pixel, cloud_nbh, DN_min, DN_max,
    tie_desc,      \* sort_index puts equal distances in descending index order
    wsel,          \* which representative of the donor / temporal weights
    pc,            \* "region" | "pixel" | "done" | "error"
    n,             \* index of the region loop
    reg,           \* the locals of the current region iteration
    ic,            \* index of the pixel loop
    px             \* the locals of the last pixel iteration

vars == <<cloud_mask, clear, cloudy_in, cloudy, num_class, min_pixel,
          cloud_nbh, DN_min, DN_max, tie_desc, wsel, pc, n, reg, ic, px>>

inputs == <<cloud_mask, clear, cloudy_in, num_class, min_pixel, cloud_nbh,
            DN_min, DN_max, tie_desc, wsel>>

\* ------------------------------------------------------------------------
\* Region locator (lines 42-71)
\* ------------------------------------------------------------------------
\* unique(cloud_mask) restricted to the codes >= 1, ascending
CloudCodes(m) == Ascending({m[i] : i \in 0..(NCells - 1)} \cap (1..NCells))

\* find(cloud_mask == cloud_code): ascending linear indices
CloudVecI(m, code) == Ascending({i \in 0..(NCells - 1) : m[i] = code})
\* column and row of each linear index, by integer division by dims(0)
ColsOf(vec_i, nrows) == [k \in DOMAIN vec_i |-> vec_i[k] \div nrows]
RowsOf(vec_i, nrows) == [k \in DOMAIN vec_i |-> vec_i[k] - (vec_i[k] \div nrows) * nrows]
Range(f) == {f[k] : k \in DOMAIN f}

\* The four window edges.  min()/max() are unsigned 64-bit and cloud_nbh is
\* an int: the difference wraps modulo 2^64 and is narrowed to a 32-bit int,
\* which for the sizes modelled is the mathematical difference.
LeftCol(m, nbh, code) ==
    LET left_col == MinOf(Range(ColsOf(CloudVecI(m, code), Rows))) - nbh
    IN  IF left_col < 0 THEN 0 ELSE left_col

\* RightCol with the clamp one column short of the image edge
RightColClampedShort(m, nbh, code) ==
    LET right_col == MaxOf(Range(ColsOf(CloudVecI(m, code), Rows))) + nbh
    IN  IF right_col > Cols - 2 THEN Cols - 2 ELSE right_col

RightCol(m, nbh, code) ==
    LET right_col == MaxOf(Range(ColsOf(CloudVecI(m, code), Rows))) + nbh
    IN  IF right_col > Cols - 1 THEN Cols - 1 ELSE right_col

UpRow(m, nbh, code) ==
    LET up_row == MinOf(Range(RowsOf(CloudVecI(m, code), Rows))) - nbh
    IN  IF up_row < 0 THEN 0 ELSE up_row

DownRow(m, nbh, code) ==
    LET down_row == MaxOf(Range(RowsOf(CloudVecI(m, code), Rows))) + nbh
    IN  IF down_row > Rows - 1 THEN Rows - 1 ELSE down_row

\* ------------------------------------------------------------------------
\* Neighbourhood extraction (lines 76-85)
\* ------------------------------------------------------------------------
\* Linear index in the full cube of element e of the tube
\* (up_row..down_row, left_col..right_col, all bands)
TubeIndex(e, up_row, left_col, nsr, nsc) ==
    LET b == e \div (nsr * nsc)
        p == e % (nsr * nsc)
    IN  (up_row + (p % nsr)) + (left_col + (p \div nsr)) * Rows + b * NCells

\* cube.tube(...) copied element by element into a matrix of
\* nsr*nsc rows and Bands columns
SubMatrix(cube, up_row, left_col, nsr, nsc) ==
    [e \in 0..(nsr * nsc * Bands - 1) |-> cube[TubeIndex(e, up_row, left_col, nsr, nsc)]]

\* cloud_mask_mat.submat(up_row, left_col, down_row, right_col)
SubMask(m, up_row, left_col, nsr, nsc) ==
    [p \in 0..(nsr * nsc - 1) |-> m[(up_row + (p % nsr)) + (left_col + (p \div nsr)) * Rows]]

\* M.rows(vec_i) of a matrix with nrows rows, as a matrix of Len0(vec_i) rows
RowsAt(M, nrows, vec_i) ==
    LET k == Len0(vec_i)
    IN  IF k = 0 THEN <<>>
        ELSE [e \in 0..(k * Bands - 1) |-> M[vec_i[(e % k)] + (e \div k) * nrows]]

\* ------------------------------------------------------------------------
\* Similarity estimator (line 88)
\* ------------------------------------------------------------------------
\* The square of similar_th_band(b) = stddev(sub_clear.col(b)) * 2 / num_class,
\* with the N-1 normalisation (0 for a single row).
SimilarThSq(sub_clear, nrows, nclass, b) ==
    LET col == [p \in 0..(nrows - 1) |-> sub_clear[p + b * nrows]]
        s1  == ISum(col, nrows)
        s2  == ISum([p \in 0..(nrows - 1) |-> col[p] * col[p]], nrows)
    IN  IF nrows < 2 THEN RI(0)
        ELSE RNorm(4 * (nrows * s2 - s1 * s1), nrows * (nrows - 1) * nclass * nclass)

\* mean(sub_cloudy_clear - sub_clear_clear, 0): one value per band, and an
\* empty (0 x Bands) result when there is no row
MeanDiff(sub_cloudy_clear, sub_clear_clear, k) ==
    IF k = 0 THEN <<>>
    ELSE [b \in 0..(Bands - 1) |->
            RMul(RSum([j \in 0..(k - 1) |->
                        RSub(sub_cloudy_clear[j + b * k], RI(sub_clear_clear[j + b * k]))], k),
                 <<1, k>>)]

\* The locals of one iteration of the region loop, up to the pixel loop
\* (lines 47-107), for mask m and the current contents cube of the buffer.
RegionLocals(m, cube, clr, nbh, nclass, code) ==
    LET left_col  == LeftCol(m, nbh, code)
        right_col == RightCol(m, nbh, code)
        up_row    == UpRow(m, nbh, code)
        down_row  == DownRow(m, nbh, code)
        nsc == (right_col - left_col) + 1
        nsr == (down_row - up_row) + 1
        sub_cloudy == SubMatrix(cube, up_row, left_col, nsr, nsc)
        sub_clear  == SubMatrix(clr, up_row, left_col, nsr, nsc)
        sub_cloud_mask == SubMask(m, up_row, left_col, nsr, nsc)
        clear_vec_i == Ascending({p \in 0..(nsr * nsc - 1) : sub_cloud_mask[p] = 0})
        cloud_vec_i == Ascending({p \in 0..(nsr * nsc - 1) : sub_cloud_mask[p] = code})
        scc == RowsAt(sub_clear, nsr * nsc, clear_vec_i)
        scy == RowsAt(sub_cloudy, nsr * nsc, clear_vec_i)
    IN  [cloud_code |-> code,
         left_col |-> left_col, right_col |-> right_col,
         up_row |-> up_row, down_row |-> down_row,
         num_sub_cols |-> nsc, num_sub_rows |-> nsr,
         x_center |-> RNorm(nsc, 2), y_center |-> RNorm(nsr, 2),
         sub_cloudy |-> sub_cloudy, sub_clear |-> sub_clear,
         sub_cloud_mask |-> sub_cloud_mask,
         similar_th_sq |-> [b \in 0..(Bands - 1) |->
                               SimilarThSq(sub_clear, nsr * nsc, nclass, b)],
         sub_clear_vec_i |-> clear_vec_i,
         sub_clear_col_i |-> ColsOf(clear_vec_i, nsr),
         sub_clear_row_i |-> RowsOf(clear_vec_i, nsr),
         sub_clear_clear |-> scc, sub_cloudy_clear |-> scy,
         mean_diff |-> MeanDiff(scy, scc, Len0(clear_vec_i)),
         sub_cloud_vec_i |-> cloud_vec_i,
         sub_cloud_col_i |-> ColsOf(cloud_vec_i, nsr),
         sub_cloud_row_i |-> RowsOf(cloud_vec_i, nsr)]

\* ------------------------------------------------------------------------
\* Similar-pixel search (lines 111-144)
\* ------------------------------------------------------------------------
\* The squares of clear_dists: distance of every candidate to (ri, ci)
ClearDistsSq(rg, ri, ci) ==
    [j \in DOMAIN rg.sub_clear_vec_i |->
        (rg.sub_clear_row_i[j] - ri) * (rg.sub_clear_row_i[j] - ri)
      + (rg.sub_clear_col_i[j] - ci) * (rg.sub_clear_col_i[j] - ci)]

\* sort_index(clear_dists): candidate rows by ascending distance; equal
\* distances in ascending (or, with tdesc, descending) row order.
SortIndex(dists_sq, tdesc) ==
    LET k == Len0(dists_sq)
        key(j) == dists_sq[j] * k + (IF tdesc THEN k - 1 - j ELSE j)
    IN  [r \in 0..(k - 1) |->
            CHOOSE j \in 0..(k - 1) : Cardinality({i \in 0..(k - 1) : key(i) < key(j)}) = r]

\* order_clear(span(1, n_elem - 1)), for n_elem >= 2
DropFirst(order) == [j \in 0..(Len0(order) - 2) |-> order[j + 1]]

\* The test of line 133 for candidate row cand against row trow of
\* sub_clear: in every band, candidate minus target <= similar_th_band.
SimilarTo(rg, cand, trow) ==
    LET k  == Len0(rg.sub_clear_vec_i)
        nW == rg.num_sub_rows * rg.num_sub_cols
    IN  \A b \in 0..(Bands - 1) :
            LET d  == rg.sub_clear_clear[cand + b * k] - rg.sub_clear[trow + b * nW]
                th == rg.similar_th_sq[b]
            IN  d <= 0 \/ d * d * th[2] <= th[1]

\* The row of sub_clear the code compares candidates with, for the ic-th
\* pixel of the cloud (line 133: sub_clear.row(ic))
TargetRow(rg, icc) == icc

\* The first index of order_clear the while loop reads (line 126)
FirstIClear == 1

RECURSIVE Walk(_, _, _, _, _, _)
\* The while loop of lines 132-144: the accepted candidate rows and the
\* final iclear.
Walk(rg, icc, order_clear, minpix, iclear, donors) ==
    IF Len0(donors) <= minpix - 1 /\ iclear <= Len0(order_clear) - 1
    THEN LET cand == order_clear[iclear]
         IN  Walk(rg, icc, order_clear, minpix, iclear + 1,
                  IF SimilarTo(rg, cand, TargetRow(rg, icc))
                  THEN [i \in 0..Len0(donors) |->
                           IF i < Len0(donors) THEN donors[i] ELSE cand]
                  ELSE donors)
    ELSE [donors |-> donors, iclear |-> iclear]

\* ------------------------------------------------------------------------
\* Weighted predictor (lines 147-185)
\* ------------------------------------------------------------------------
\* weight(i) of lines 156-159 for the i-th of ns accepted donors: strictly
\* positive, summing to one.  ws = 1: all equal; ws = 2: decreasing with i.
Weight(ws, ns, i) ==
    IF ws = 1 THEN RNorm(1, ns) ELSE RNorm(2 * (ns - i), ns * (ns + 1))

\* W_T1 = r2 / (r2 + mean(dis_similar)) of line 162: 0 when r2 = 0, else
\* strictly between 0 and 1 (the donor distances are positive).
W_T1(ws, r2sq) ==
    IF r2sq[1] = 0 THEN RI(0) ELSE IF ws = 1 THEN <<1, 2>> ELSE <<1, 3>>

\* The values written to row TargetRow of sub_cloudy, one per band
Predict(rg, icc, donors, r2sq, dnmin, dnmax, ws) ==
    LET k  == Len0(rg.sub_clear_vec_i)
        nW == rg.num_sub_rows * rg.num_sub_cols
        ns == Len0(donors)
        trow == TargetRow(rg, icc)
    IN  [b \in 0..(Bands - 1) |->
          IF ns > 1
          THEN LET predict_1 ==
                     RSum([i \in 0..(ns - 1) |->
                             RMul(Weight(ws, ns, i),
                                  rg.sub_cloudy_clear[donors[i] + b * k])], ns)
                   predict_2 ==
                     RAdd(RI(rg.sub_clear[trow + b * nW]),
                          RSum([i \in 0..(ns - 1) |->
                                  RMul(Weight(ws, ns, i),
                                       RSub(rg.sub_cloudy_clear[donors[i] + b * k],
                                            RI(rg.sub_clear_clear[donors[i] + b * k])))], ns))
                   wt1 == W_T1(ws, r2sq)
               IN  IF RLt(RI(dnmin), predict_2) /\ RLt(predict_2, RI(dnmax))
                   THEN RAdd(RMul(wt1, predict_1), RMul(RSub(RI(1), wt1), predict_2))
                   ELSE predict_1
          ELSE RAdd(RI(rg.sub_clear[trow + b * nW]), rg.mean_diff[b])]

\* order_clear(span(1, n_elem - 1)) of line 123 is out of bounds when
\* order_clear has fewer than two elements (n_elem - 1 is unsigned)
SpanThrows(rg) == Len0(rg.sub_clear_vec_i) < 2

\* One iteration of the pixel loop (lines 109-186) on the working matrix
\* sub_cloudy.  threw: the span of line 123 is out of bounds (fewer than two
\* candidate rows), which the bounds-checked build answers with an exception.
PixelLocals(rg, sub_cloudy, icc, minpix, dnmin, dnmax, tdesc, ws) ==
    LET ri == rg.sub_cloud_row_i[icc]
        ci == rg.sub_cloud_col_i[icc]
        dx == RSub(rg.x_center, RI(ri))
        dy == RSub(rg.y_center, RI(ci))
        r2sq  == RAdd(RMul(dx, dx), RMul(dy, dy))
        order == SortIndex(ClearDistsSq(rg, ri, ci), tdesc)
        nW == rg.num_sub_rows * rg.num_sub_cols
    IN  IF SpanThrows(rg)
        THEN [threw |-> TRUE, ri |-> ri, ci |-> ci, r2sq |-> r2sq, order |-> order,
              donors |-> <<>>, iclear |-> FirstIClear, out |-> <<>>,
              sub_cloudy |-> sub_cloudy]
        ELSE LET w   == Walk(rg, icc, DropFirst(order), minpix, FirstIClear, <<>>)
                 out == Predict(rg, icc, w.donors, r2sq, dnmin, dnmax, ws)
             IN  [threw |-> FALSE, ri |-> ri, ci |-> ci, r2sq |-> r2sq, order |-> order,
                  donors |-> w.donors, iclear |-> w.iclear, out |-> out,
                  sub_cloudy |->
                      [e \in DOMAIN sub_cloudy |->
                          IF e % nW = TargetRow(rg, icc)
                          THEN out[e \div nW] ELSE sub_cloudy[e]]]

\* ------------------------------------------------------------------------
\* Write-back (lines 188-194)
\* ------------------------------------------------------------------------
\* The whole window of every band is assigned from sub_cloudy
WriteBack(cube, rg, sub_cloudy) ==
    LET nsr == rg.num_sub_rows
        nsc == rg.num_sub_cols
    IN  [x \in DOMAIN cube |->
            LET b == x \div NCells
                r == (x % NCells) % Rows
                c == (x % NCells) \div Rows
            IN  IF /\ rg.up_row <= r /\ r <= rg.down_row
                   /\ rg.left_col <= c /\ c <= rg.right_col
                THEN sub_cloudy[(r - rg.up_row) + (c - rg.left_col) * nsr + b * nsr * nsc]
                ELSE cube[x]]

\* ------------------------------------------------------------------------
\* The whole function on a given mask, as a value: the region loop of lines
\* 46-195 run over the codes in a given order (the code's order is
\* CloudCodes).  ok = FALSE when an iteration throws.
\* ------------------------------------------------------------------------
RECURSIVE PixelLoop(_, _, _)
PixelLoop(rg, sub_cloudy, icc) ==
    IF icc >= Len0(rg.sub_cloud_vec_i) THEN [ok |-> TRUE, v |-> sub_cloudy]
    ELSE LET p == PixelLocals(rg, sub_cloudy, icc, min_pixel, DN_min, DN_max,
                              tie_desc, wsel)
         IN  IF p.threw THEN [ok |-> FALSE, v |-> sub_cloudy]
             ELSE PixelLoop(rg, p.sub_cloudy, icc + 1)

FillRegion(m, cube, code) ==
    LET rg  == RegionLocals(m, cube, clear, cloud_nbh, num_class, code)
        res == PixelLoop(rg, rg.sub_cloudy, 0)
    IN  IF res.ok THEN [ok |-> TRUE, v |-> WriteBack(cube, rg, res.v)]
        ELSE [ok |-> FALSE, v |-> cube]

RECURSIVE RunFrom(_, _, _, _)
RunFrom(m, cube, codes, i) ==
    IF i >= Len0(codes) THEN [ok |-> TRUE, v |-> cube]
    ELSE LET res == FillRegion(m, cube, codes[i])
         IN  IF res.ok THEN RunFrom(m, res.v, codes, i + 1) ELSE res

\* ------------------------------------------------------------------------
\* Inputs
\* ------------------------------------------------------------------------
FlatDN == 20
Sentinel == 300

RowOf(i) == i % Rows
ColOf(i) == i \div Rows
AllCells == 0..(NCells - 1)

\* The cells of cloud 1: one cell, or two adjacent cells
Shapes ==
    {{i} : i \in AllCells}
    \cup {{i, i + Rows} : i \in {j \in AllCells : ColOf(j) < Cols - 1}}
    \cup {{i, i + 1} : i \in {j \in AllCells : RowOf(j) < Rows - 1}}

\* cloud 1 and, optionally, one more marked cell: a one-cell cloud 2 or a
\* cell missing in the clear image (-1)
Masks ==
    {[i \in AllCells |-> IF i \in s THEN 1 ELSE IF i = extra THEN code ELSE 0] :
     s \in Shapes, extra \in (AllCells \cup {NCells}), code \in {2, -1}}

\* The clear image: one value everywhere, or a ramp over rows, columns and
\* bands
FlatImage == [x \in 0..(NCells * Bands - 1) |-> FlatDN]
RampImage ==
    [x \in 0..(NCells * Bands - 1) |->
        10 + 4 * RowOf(x % NCells) + ColOf(x % NCells) + 3 * (x \div NCells)]

\* The cloudy image: the sentinel under the clouds and, elsewhere, the clear
\* image (flat scene) or the clear image plus an offset that varies from
\* cell to cell (ramp scene)
CloudyImage(clr, m) ==
    [x \in 0..(NCells * Bands - 1) |->
        IF m[x % NCells] >= 1 THEN RI(Sentinel)
        ELSE IF clr = FlatImage THEN RI(clr[x])
        ELSE RI(clr[x] + 5 + 4 * ((x % NCells) % 3))]

NoLocals == <<>>

Init ==
    /\ cloud_mask \in Masks
    /\ clear \in {FlatImage, RampImage}
    /\ cloudy_in = CloudyImage(clear, cloud_mask)
    /\ cloudy = cloudy_in
    /\ num_class \in 1..MaxNumClass
    /\ min_pixel \in 1..MaxMinPixel
    /\ cloud_nbh \in 0..MaxNbh
    /\ DN_min = 0
    /\ DN_max = MaxDN
    /\ tie_desc \in BOOLEAN
    /\ wsel \in {1, 2}
    /\ pc = "region"
    /\ n = 0
    /\ reg = NoLocals
    /\ ic = 0
    /\ px = NoLocals

\* ------------------------------------------------------------------------
\* Steps
\* ------------------------------------------------------------------------
\* lines 46-107: enter the next iteration of the region loop
RegionStart ==
    /\ pc = "region"
    /\ n < Len0(CloudCodes(cloud_mask))
    /\ reg' = RegionLocals(cloud_mask, cloudy, clear, cloud_nbh, num_class,
                           CloudCodes(cloud_mask)[n])
    /\ ic' = 0
    /\ pc' = "pixel"
    /\ UNCHANGED <<inputs, cloudy, n, px>>

\* lines 109-186: one iteration of the pixel loop
FillPixel ==
    /\ pc = "pixel"
    /\ ic < Len0(reg.sub_cloud_vec_i)
    /\ ~SpanThrows(reg)
    /\ LET p == PixelLocals(reg, reg.sub_cloudy, ic, min_pixel, DN_min, DN_max,
                            tie_desc, wsel)
       IN  /\ px' = [p EXCEPT !.sub_cloudy = <<>>]
           /\ reg' = [reg EXCEPT !.sub_cloudy = p.sub_cloudy]
    /\ ic' = ic + 1
    /\ UNCHANGED <<inputs, cloudy, pc, n>>

\* line 123 throws: the call ends with an error and returns nothing
FillPixelThrows ==
    /\ pc = "pixel"
    /\ ic < Len0(reg.sub_cloud_vec_i)
    /\ SpanThrows(reg)
    /\ px' = [PixelLocals(reg, reg.sub_cloudy, ic, min_pixel, DN_min, DN_max,
                          tie_desc, wsel) EXCEPT !.sub_cloudy = <<>>]
    /\ pc' = "error"
    /\ UNCHANGED <<inputs, cloudy, n, reg, ic>>

\* lines 188-194: the window goes back into the cube, next region
WriteBackRegion ==
    /\ pc = "pixel"
    /\ ic = Len0(reg.sub_cloud_vec_i)
    /\ cloudy' = WriteBack(cloudy, reg, reg.sub_cloudy)
    /\ n' = n + 1
    /\ pc' = "region"
    /\ UNCHANGED <<inputs, reg, ic, px>>

\* line 196
Return ==
    /\ pc = "region"
    /\ n = Len0(CloudCodes(cloud_mask))
    /\ pc' = "done"
    /\ UNCHANGED <<inputs, cloudy, n, reg, ic, px>>

Next == RegionStart \/ FillPixel \/ FillPixelThrows \/ WriteBackRegion \/ Return

Spec == Init /\ [][Next]_vars

\* The same steps from every mask and every cloud_nbh, the other inputs fixed
InitWindow ==
    /\ Init
    /\ clear = RampImage
    /\ num_class = 1
    /\ min_pixel = MaxMinPixel
    /\ ~tie_desc
    /\ wsel = 1

SpecWindow == InitWindow /\ [][Next]_vars

\* ------------------------------------------------------------------------
\* Vocabulary of the properties, stated on (row, col) coordinates
\* ------------------------------------------------------------------------
Min2(a, b) == IF a < b THEN a ELSE b
Max2(a, b) == IF a > b THEN a ELSE b

CellsOf(m, code) == {i \in AllCells : m[i] = code}
CodesOf(m) == {m[i] : i \in AllCells} \cap (1..NCells)

\* The tight bounding box of a region, expanded by cloud_nbh on each side
\* and clamped to the image
BoxUp(m, code)    == Max2(0, MinOf({RowOf(i) : i \in CellsOf(m, code)}) - cloud_nbh)
BoxDown(m, code)  == Min2(Rows - 1, MaxOf({RowOf(i) : i \in CellsOf(m, code)}) + cloud_nbh)
BoxLeft(m, code)  == Max2(0, MinOf({ColOf(i) : i \in CellsOf(m, code)}) - cloud_nbh)
BoxRight(m, code) == Min2(Cols - 1, MaxOf({ColOf(i) : i \in CellsOf(m, code)}) + cloud_nbh)

BoxCells(m, code) ==
    {i \in AllCells : /\ BoxUp(m, code) <= RowOf(i) /\ RowOf(i) <= BoxDown(m, code)
                      /\ BoxLeft(m, code) <= ColOf(i) /\ ColOf(i) <= BoxRight(m, code)}

\* The mask-0 cells of a region's window
Candidates(m, code) == {i \in BoxCells(m, code) : m[i] = 0}

\* A pixel iteration has just ended: px and reg describe pixel ic - 1 of
\* the current region
PixelFilled == pc = "pixel" /\ ic > 0

\* Image cell of the pixel just filled, from its window-local (ri, ci)
OwnCell == (reg.up_row + px.ri) + (reg.left_col + px.ci) * Rows
\* Its row in the window matrices
OwnRow == px.ri + px.ci * reg.num_sub_rows
\* Image cell of candidate row j of the current region
CandCell(j) ==
    (reg.up_row + reg.sub_clear_row_i[j]) + (reg.left_col + reg.sub_clear_col_i[j]) * Rows

\* ------------------------------------------------------------------------
\* C1  Non-interference: when cloud_fill has returned, every cell whose mask
\* value is 0 or -1 holds in every band the value it held in the input.
\* ------------------------------------------------------------------------
C1_NonInterference ==
    pc = "done" =>
        \A x \in 0..(NCells * Bands - 1) :
            cloud_mask[x % NCells] <= 0 => cloudy[x] = cloudy_in[x]

\* ------------------------------------------------------------------------
\* C2  Constant scene: when the clear image is a constant v inside
\* (DN_min, DN_max), the cloudy image equals v on the mask-0 cells and every
\* region's window holds at least two mask-0 cells, then after cloud_fill
\* every positive-coded cell holds v and every other cell is unchanged.
\* ------------------------------------------------------------------------
ConstantScene ==
    LET v == clear[0]
    IN  /\ \A x \in 0..(NCells * Bands - 1) : clear[x] = v
        /\ DN_min < v /\ v < DN_max
        /\ \A x \in 0..(NCells * Bands - 1) :
               cloud_mask[x % NCells] = 0 => cloudy_in[x] = RI(v)
        /\ \A code \in CodesOf(cloud_mask) :
               Cardinality(Candidates(cloud_mask, code)) >= 2

C2_ConstantFill ==
    (pc = "done" /\ ConstantScene) =>
        \A x \in 0..(NCells * Bands - 1) :
            cloudy[x] = IF cloud_mask[x % NCells] >= 1 THEN RI(clear[0]) ELSE cloudy_in[x]

\* ------------------------------------------------------------------------
\* C3  Region order independence: the image returned is the one every
\* other processing order of the regions gives, and the candidate values a
\* region reads from the cloudy buffer are the input values, never values
\* written while another region was filled.
\* ------------------------------------------------------------------------
Reversed(codes) == [i \in DOMAIN codes |-> codes[Len0(codes) - 1 - i]]

C3_OrderIndependent ==
    /\ pc = "done" =>
          LET other == RunFrom(cloud_mask, cloudy_in, Reversed(CloudCodes(cloud_mask)), 0)
          IN  other.ok /\ other.v = cloudy
    /\ pc = "pixel" =>
          \A j \in DOMAIN reg.sub_clear_vec_i : \A b \in 0..(Bands - 1) :
              reg.sub_cloudy_clear[j + b * Len0(reg.sub_clear_vec_i)]
                  = cloudy_in[CandCell(j) + b * NCells]

\* ------------------------------------------------------------------------
\* C4  Window containment and clamping: the window computed for a region
\* contains the region, lies inside the image, is the region's bounding box
\* expanded by cloud_nbh on each side and clamped, and every cube and mask
\* element read for the region lies inside the image.
\* ------------------------------------------------------------------------
C4_WindowClamped ==
    pc \in {"pixel", "error"} =>
        LET cells == CellsOf(cloud_mask, reg.cloud_code)
            minr == MinOf({RowOf(i) : i \in cells})
            maxr == MaxOf({RowOf(i) : i \in cells})
            minc == MinOf({ColOf(i) : i \in cells})
            maxc == MaxOf({ColOf(i) : i \in cells})
        IN  /\ 0 <= reg.up_row /\ reg.up_row <= minr
            /\ maxr <= reg.down_row /\ reg.down_row <= Rows - 1
            /\ 0 <= reg.left_col /\ reg.left_col <= minc
            /\ maxc <= reg.right_col /\ reg.right_col <= Cols - 1
            /\ reg.up_row = Max2(0, minr - cloud_nbh)
            /\ reg.down_row = Min2(Rows - 1, maxr + cloud_nbh)
            /\ reg.left_col = Max2(0, minc - cloud_nbh)
            /\ reg.right_col = Min2(Cols - 1, maxc + cloud_nbh)
            /\ \A e \in DOMAIN reg.sub_clear :
                   LET x == TubeIndex(e, reg.up_row, reg.left_col,
                                      reg.num_sub_rows, reg.num_sub_cols)
                   IN  /\ x \in 0..(NCells * Bands - 1)
                       /\ RowOf(x % NCells) \in reg.up_row..reg.down_row
                       /\ ColOf(x % NCells) \in reg.left_col..reg.right_col
            /\ \A i \in cells :
                   (RowOf(i) - reg.up_row) + (ColOf(i) - reg.left_col) * reg.num_sub_rows
                       \in Range(reg.sub_cloud_vec_i)

\* a region against the image border whose expansion overflows on two sides
C4_Witness ==
    /\ pc = "pixel"
    /\ cloud_nbh > 0
    /\ MinOf({ColOf(i) : i \in CellsOf(cloud_mask, reg.cloud_code)}) - cloud_nbh < 0
    /\ MaxOf({RowOf(i) : i \in CellsOf(cloud_mask, reg.cloud_code)}) + cloud_nbh > Rows - 1
    /\ reg.left_col = 0
    /\ reg.down_row = Rows - 1
    /\ ic > 0

\* ------------------------------------------------------------------------
\* C5  Degenerate regions are not fatal: whatever the number of mask-0
\* cells in a region's window (zero, one, more), no error is raised and the
\* call runs to completion.
\* ------------------------------------------------------------------------
C5_NeverThrows == pc # "error"

\* ------------------------------------------------------------------------
\* C6  Multi-region independence: for a region B whose window overlaps the
\* window of no other region, the image returned agrees, on every cell that
\* does not carry code B, with the image returned when B's cells are mask 0.
\* ------------------------------------------------------------------------
WithoutRegion(m, code) == [i \in AllCells |-> IF m[i] = code THEN 0 ELSE m[i]]

C6_RegionAbsent ==
    pc = "done" =>
        \A B \in CodesOf(cloud_mask) :
            (/\ CodesOf(cloud_mask) # {B}
             /\ \A A \in CodesOf(cloud_mask) \ {B} :
                    BoxCells(cloud_mask, A) \cap BoxCells(cloud_mask, B) = {})
            => LET m2 == WithoutRegion(cloud_mask, B)
                   r2 == RunFrom(m2, cloudy_in, CloudCodes(m2), 0)
               IN  /\ r2.ok
                   /\ \A x \in 0..(NCells * Bands - 1) :
                          cloud_mask[x % NCells] # B => cloudy[x] = r2.v[x]

\* ------------------------------------------------------------------------
\* C7  Donor selection order: of the candidates sorted by ascending
\* distance only the nearest (sorted index 0) is skipped; the accepted
\* donors are the first min_pixel candidates from the second-nearest onward
\* that pass the similarity test, so their number lies in 0..min_pixel.
\* ------------------------------------------------------------------------
RECURSIVE TakeSimilar(_, _, _, _, _)
TakeSimilar(order, trow, minpix, j, acc) ==
    IF j >= Len0(order) \/ Len0(acc) >= minpix THEN acc
    ELSE TakeSimilar(order, trow, minpix, j + 1,
                     IF SimilarTo(reg, order[j], trow)
                     THEN [i \in 0..Len0(acc) |-> IF i < Len0(acc) THEN acc[i] ELSE order[j]]
                     ELSE acc)

C7_DonorsFromSecondNearest ==
    PixelFilled =>
        /\ px.donors = TakeSimilar(px.order, TargetRow(reg, ic - 1), min_pixel, 1, <<>>)
        /\ Len0(px.donors) \in 0..min_pixel

\* ------------------------------------------------------------------------
\* C8  Similarity test: a candidate the search examined is accepted iff in
\* every band its clear value minus the clear value at the obscured pixel's
\* own position (ri, ci) is <= similar_th of the band.
\* ------------------------------------------------------------------------
SimilarToOwn(j) ==
    \A b \in 0..(Bands - 1) :
        LET d  == clear[CandCell(j) + b * NCells] - clear[OwnCell + b * NCells]
            th == reg.similar_th_sq[b]
        IN  d <= 0 \/ d * d * th[2] <= th[1]

C8_SimilarToOwnSpectrum ==
    PixelFilled =>
        \A i \in FirstIClear..(px.iclear - 1) :
            LET j == DropFirst(px.order)[i]
            IN  (j \in Range(px.donors)) <=> SimilarToOwn(j)

\* ------------------------------------------------------------------------
\* C9  Fallback: a pixel with at most one accepted donor gets, in each band,
\* the clear value at that pixel plus the mean of (cloudy - clear) over the
\* mask-0 cells of the region's window, taken from the input images.
\* ------------------------------------------------------------------------
InputMeanDiff(b) ==
    LET cand == Ascending(Candidates(cloud_mask, reg.cloud_code))
        k    == Len0(cand)
    IN  RMul(RSum([j \in 0..(k - 1) |->
                      RSub(cloudy_in[cand[j] + b * NCells],
                           RI(clear[cand[j] + b * NCells]))], k),
             <<1, k>>)

C9_Fallback ==
    (PixelFilled /\ Len0(px.donors) <= 1) =>
        \A b \in 0..(Bands - 1) :
            reg.sub_cloudy[OwnRow + b * reg.num_sub_rows * reg.num_sub_cols]
                = RAdd(RI(clear[OwnCell + b * NCells]), InputMeanDiff(b))

\* ------------------------------------------------------------------------
\* C10  Temporal-weight reference point: r2 is the distance from (ri, ci)
\* to the window centre (num_sub_rows/2, num_sub_cols/2):
\* r2^2 = (ri - num_sub_rows/2)^2 + (ci - num_sub_cols/2)^2.
\* ------------------------------------------------------------------------
C10_CentreDistance ==
    PixelFilled =>
        LET dr == RSub(RI(px.ri), RNorm(reg.num_sub_rows, 2))
            dc == RSub(RI(px.ci), RNorm(reg.num_sub_cols, 2))
        IN  px.r2sq = RAdd(RMul(dr, dr), RMul(dc, dc))

====
